---- MODULE Spec2Model ----
(***************************************************************************)
(* Debate Tournament Analyzer (src/app.py): the session store of           *)
(* tournaments, the Add / Remove handlers of the sidebar and the           *)
(* "Process All Tournaments" handler, which folds every row of every       *)
(* round into per-tournament and cross-tournament leaderboards.            *)
(*                                                                         *)
(* Text is a sequence of one-character strings, so that strip, lower,      *)
(* startswith, substring search and the two regular expressions of the     *)
(* extractors are computed character by character.  A cell of a data       *)
(* frame is represented by its str() image (every use of a cell in the     *)
(* source goes through str()): a blank CSV cell, which pandas reads as     *)
(* NaN, is the text "nan".  Python floats are modelled by exact rationals  *)
(* [n, d] in lowest terms; round(x, k) rounds half to even.                *)
(***************************************************************************)
EXTENDS Integers, Sequences, FiniteSets, TLC

\* ------------------------------------------------------------------------
\* State
\* ------------------------------------------------------------------------
VARIABLES
    tournaments,  \* st.session_state.tournaments: name -> list of round frames
    pc,           \* position of the Process handler: idle, tournament, round,
                  \* row, done
    ti, ri, rowi, \* the tournament, round and row the loops are at
    cross,        \* the cross-tournament accumulators
    tour,         \* the accumulators of the tournament being processed
    row,          \* the local variables of the last row processed
    out,          \* the tables displayed by the run
    warnings,     \* the tournaments named by the skipped-round warnings
    prev_out      \* the tables of the run before this one, when the store
                  \* has not changed since

vars == <<tournaments, pc, ti, ri, rowi, cross, tour, row, out,
          warnings, prev_out>>

\* ------------------------------------------------------------------------
\* Characters and text
\* ------------------------------------------------------------------------
UpperCase == <<"A","B","C","D","E","F","G","H","I","J","K","L","M",
               "N","O","P","Q","R","S","T","U","V","W","X","Y","Z">>

LowerCase == <<"a","b","c","d","e","f","g","h","i","j","k","l","m",
               "n","o","p","q","r","s","t","u","v","w","x","y","z">>

Digits == <<"0","1","2","3","4","5","6","7","8","9">>

Range(s) == {s[i] : i \in DOMAIN s}

\* \s of the regular expressions and the characters str.strip() removes
IsSpace(c) == c \in {" ", "\t", "\n", "\r"}

\* \d
IsDigit(c) == c \in Range(Digits)

DigitVal(c) == (CHOOSE i \in DOMAIN Digits : Digits[i] = c) - 1

IsLetter(c) == c \in Range(UpperCase) \cup Range(LowerCase)

\* the character class [A-Za-z\.\'\-\s] of the name group
IsNameChar(c) == IsLetter(c) \/ c \in {".", "'", "-"} \/ IsSpace(c)

LowerChar(c) ==
    IF c \in Range(UpperCase)
    THEN LowerCase[CHOOSE i \in DOMAIN UpperCase : UpperCase[i] = c]
    ELSE c

\* str.lower()
Lower(s) == [i \in DOMAIN s |-> LowerChar(s[i])]

\* str.startswith(prefix)
StartsWith(s, prefix) ==
    /\ Len(prefix) <= Len(s)
    /\ \A i \in DOMAIN prefix : s[i] = prefix[i]

\* the Python test  k in s  on strings
Contains(s, k) ==
    \E off \in 0..(Len(s) - Len(k)) : \A i \in DOMAIN k : s[off + i] = k[i]

\* str.strip()
Strip(s) ==
    LET keep == {i \in DOMAIN s : ~IsSpace(s[i])}
    IN  IF keep = {} THEN <<>>
        ELSE LET lo == CHOOSE i \in keep : \A j \in keep : i <= j
                 hi == CHOOSE i \in keep : \A j \in keep : j <= i
             IN  SubSeq(s, lo, hi)

\* re.sub(r"\s+", " ", s): every run of whitespace becomes one space
RECURSIVE CollapseFrom(_, _)
CollapseFrom(s, i) ==
    IF i > Len(s) THEN <<>>
    ELSE IF IsSpace(s[i])
         THEN IF i > 1 /\ IsSpace(s[i - 1])
              THEN CollapseFrom(s, i + 1)
              ELSE <<" ">> \o CollapseFrom(s, i + 1)
         ELSE <<s[i]>> \o CollapseFrom(s, i + 1)

CollapseSpaces(s) == CollapseFrom(s, 1)

\* str.replace('"', "")
RemoveQuotes(s) == SelectSeq(s, LAMBDA c : c # "\"")

\* ------------------------------------------------------------------------
\* Numbers: exact rationals in lowest terms
\* ------------------------------------------------------------------------
RECURSIVE Gcd(_, _)
Gcd(a, b) == IF b = 0 THEN a ELSE Gcd(b, a % b)

Rat(n, d) == LET g == Gcd(n, d) IN [n |-> n \div g, d |-> d \div g]

Zero == Rat(0, 1)

FromInt(k) == Rat(k, 1)

RAdd(x, y) == Rat(x.n * y.d + y.n * x.d, x.d * y.d)

\* x / k for an integer k > 0
RDivInt(x, k) == Rat(x.n, x.d * k)

RLess(x, y) == x.n * y.d < y.n * x.d

RECURSIVE Pow10(_)
Pow10(k) == IF k = 0 THEN 1 ELSE 10 * Pow10(k - 1)

\* round(x, k) for x >= 0: the nearest multiple of 10^-k, a tie to the even one
Round(x, k) ==
    LET scaled == x.n * Pow10(k)
        q == scaled \div x.d
        r == scaled % x.d
        up == \/ 2 * r > x.d
              \/ (2 * r = x.d /\ q % 2 = 1)
    IN  Rat(IF up THEN q + 1 ELSE q, Pow10(k))

RECURSIVE SumRat(_)
SumRat(xs) == IF xs = <<>> THEN Zero ELSE RAdd(Head(xs), SumRat(Tail(xs)))

\* ------------------------------------------------------------------------
\* Score-text extraction
\* ------------------------------------------------------------------------
\* end of the maximal run of digits starting at i (text[i] is a digit)
RECURSIVE DigitsEnd(_, _)
DigitsEnd(text, i) ==
    IF i < Len(text) /\ IsDigit(text[i + 1]) THEN DigitsEnd(text, i + 1) ELSE i

\* end of the match of \d+(?:\.\d+)? starting at i (text[i] is a digit)
NumberEnd(text, i) ==
    LET e == DigitsEnd(text, i)
    IN  IF e + 2 <= Len(text) /\ text[e + 1] = "." /\ IsDigit(text[e + 2])
        THEN DigitsEnd(text, e + 2)
        ELSE e

RECURSIVE DigitsValue(_)
DigitsValue(ds) ==
    IF ds = <<>> THEN 0
    ELSE 10 * DigitsValue(SubSeq(ds, 1, Len(ds) - 1)) + DigitVal(ds[Len(ds)])

\* float() of a text matched by \d+(?:\.\d+)?
ToFloat(num) ==
    LET dots == {i \in DOMAIN num : num[i] = "."}
    IN  IF dots = {} THEN FromInt(DigitsValue(num))
        ELSE LET p == CHOOSE i \in dots : TRUE
                 frac == SubSeq(num, p + 1, Len(num))
             IN  Rat(DigitsValue(SubSeq(num, 1, p - 1)) * Pow10(Len(frac))
                       + DigitsValue(frac),
                     Pow10(Len(frac)))

\* first index >= i that holds no whitespace (Len + 1 when there is none)
RECURSIVE SkipSpaces(_, _)
SkipSpaces(text, i) ==
    IF i <= Len(text) /\ IsSpace(text[i]) THEN SkipSpaces(text, i + 1) ELSE i

\* the name lengths k at which the pattern
\*   ([A-Za-z\.\'\-\s]{2,}?)\s+(\d+(?:\.\d+)?)
\* matches from position s: k name characters, then whitespace, then a digit
NameLengths(text, s) ==
    {k \in 2..(Len(text) - s + 1) :
        /\ \A i \in s..(s + k - 1) : IsNameChar(text[i])
        /\ s + k <= Len(text)
        /\ IsSpace(text[s + k])
        /\ LET q == SkipSpaces(text, s + k)
           IN  q <= Len(text) /\ IsDigit(text[q])}

\* pattern.findall(text) from position s on: at each position the lazy name
\* group takes the shortest length that lets the rest match
RECURSIVE FindPairs(_, _)
FindPairs(text, s) ==
    IF s > Len(text) THEN <<>>
    ELSE LET ks == NameLengths(text, s)
         IN  IF ks = {} THEN FindPairs(text, s + 1)
             ELSE LET k == CHOOSE x \in ks : \A y \in ks : x <= y
                      q == SkipSpaces(text, s + k)
                      e == NumberEnd(text, q)
                  IN  <<<<SubSeq(text, s, s + k - 1), SubSeq(text, q, e)>>>>
                        \o FindPairs(text, e + 1)

RECURSIVE CleanPairs(_)
CleanPairs(ps) ==
    IF ps = <<>> THEN <<>>
    ELSE LET name == Strip(Head(ps)[1])
             score == ToFloat(Head(ps)[2])
         IN  (IF name # <<>>
              THEN <<[name |-> CollapseSpaces(name), score |-> score]>>
              ELSE <<>>) \o CleanPairs(Tail(ps))

extract_name_score_pairs(text) == CleanPairs(FindPairs(text, 1))

\* re.findall(r"\d+(?:\.\d+)?", text) from position s on
RECURSIVE FindNumbers(_, _)
FindNumbers(text, s) ==
    IF s > Len(text) THEN <<>>
    ELSE IF IsDigit(text[s])
         THEN LET e == NumberEnd(text, s)
              IN  <<SubSeq(text, s, e)>> \o FindNumbers(text, e + 1)
         ELSE FindNumbers(text, s + 1)

extract_numbers(text) ==
    LET nums == FindNumbers(text, 1)
    IN  [i \in DOMAIN nums |-> ToFloat(nums[i])]

\* ------------------------------------------------------------------------
\* Python values: None, truthiness, insertion-ordered dictionaries
\* ------------------------------------------------------------------------
\* An optional column label: None is <<>>, the label c is <<c>>
None == <<>>

Some(c) == <<c>>

\* truth value of an optional label: None and the empty string are false
Truthy(o) == o # None /\ o[1] # <<>>

\* the Python expression  a or b
PyOr(a, b) == IF Truthy(a) THEN a ELSE b

\* A dict (or defaultdict) is the sequence of its items [k, v] in insertion
\* order
Keys(d) == [i \in DOMAIN d |-> d[i].k]

Has(d, k) == \E i \in DOMAIN d : d[i].k = k

\* d.get(k, default)
Get(d, k, default) ==
    IF Has(d, k) THEN d[CHOOSE i \in DOMAIN d : d[i].k = k].v ELSE default

\* d[k] = v: an existing key keeps its place, a new key goes last
Put(d, k, v) ==
    IF Has(d, k)
    THEN [i \in DOMAIN d |-> IF d[i].k = k THEN [k |-> k, v |-> v] ELSE d[i]]
    ELSE Append(d, [k |-> k, v |-> v])

\* d[k] += n on a defaultdict(int)
IncInt(d, k, n) == Put(d, k, Get(d, k, 0) + n)

\* d[k] += x on a defaultdict(float)
IncRat(d, k, x) == Put(d, k, RAdd(Get(d, k, Zero), x))

\* ------------------------------------------------------------------------
\* Column cleaning and column detection
\* ------------------------------------------------------------------------
kw_aff == <<"a","f","f">>
kw_aff_sp == <<"a","f","f"," ">>
kw_neg == <<"n","e","g">>
kw_neg_sp == <<"n","e","g"," ">>
kw_team == <<"t","e","a","m">>
kw_win == <<"w","i","n">>
kw_winner == <<"w","i","n","n","e","r">>
kw_point == <<"p","o","i","n","t">>

\* A data frame is [columns, rows]: the labels, and for each row its cells
\* in the order of the labels
clean_columns(df) ==
    [df EXCEPT !.columns =
        [i \in DOMAIN df.columns |->
            RemoveQuotes(CollapseSpaces(Strip(df.columns[i])))]]

\* next((c for c in cols if ...), None): the first of the columns whose
\* positions are in hits
FirstCol(cols, hits) ==
    IF hits = {} THEN None
    ELSE Some(cols[CHOOSE i \in hits : \A j \in hits : i <= j])

find_column(columns, keywords) ==
    FirstCol(columns,
             {i \in DOMAIN columns :
                \A j \in DOMAIN keywords :
                   Contains(Lower(columns[i]), Lower(keywords[j]))})

\* the team-identifier column of a side as first detected (source lines 164, 165)
TeamColByKeyword(cols, side, side_sp) ==
    PyOr(find_column(cols, <<side>>),
         PyOr(find_column(cols, <<side_sp, kw_team>>),
              find_column(cols, <<side, kw_team>>)))

\* ... and after the prefix fallback (source lines 172-175)
TeamCol(cols, side, side_sp) ==
    LET c == TeamColByKeyword(cols, side, side_sp)
    IN  IF ~Truthy(c)
        THEN FirstCol(cols, {i \in DOMAIN cols : StartsWith(Lower(cols[i]), side)})
        ELSE c

WinCol(cols) ==
    LET c == PyOr(find_column(cols, <<kw_win>>), find_column(cols, <<kw_winner>>))
    IN  IF ~Truthy(c)
        THEN FirstCol(cols, {i \in DOMAIN cols : Contains(Lower(cols[i]), kw_win)})
        ELSE c

PointsCol(cols, side) ==
    FirstCol(cols, {i \in DOMAIN cols : /\ Contains(Lower(cols[i]), side)
                                        /\ Contains(Lower(cols[i]), kw_point)})

\* the columns detected for one round
DetectColumns(df) ==
    [aff_col |-> TeamCol(df.columns, kw_aff, kw_aff_sp),
     neg_col |-> TeamCol(df.columns, kw_neg, kw_neg_sp),
     win_col |-> WinCol(df.columns),
     aff_points_col |-> PointsCol(df.columns, kw_aff),
     neg_points_col |-> PointsCol(df.columns, kw_neg)]

\* a round skipped only when both team columns are missing
CannotDetectTeams_Both(c) == ~Truthy(c.aff_col) /\ ~Truthy(c.neg_col)

\* the test that makes the loop skip a round
CannotDetectTeams(c) == ~Truthy(c.aff_col) \/ ~Truthy(c.neg_col)

\* row.get(col, "") for an optional label; the labels of a frame are distinct
RowGet(df, r, col) ==
    IF col # None /\ \E i \in DOMAIN df.columns : df.columns[i] = col[1]
    THEN r[CHOOSE i \in DOMAIN df.columns : df.columns[i] = col[1]]
    ELSE <<>>

\* ------------------------------------------------------------------------
\* One row: winner, participants, side totals
\* ------------------------------------------------------------------------
AffSpeaker1 == <<"A","f","f"," ","S","p","e","a","k","e","r"," ","1">>
AffSpeaker2 == <<"A","f","f"," ","S","p","e","a","k","e","r"," ","2">>
NegSpeaker1 == <<"N","e","g"," ","S","p","e","a","k","e","r"," ","1">>
NegSpeaker2 == <<"N","e","g"," ","S","p","e","a","k","e","r"," ","2">>

WinnerVal(df, r, c) ==
    IF Truthy(c.win_col) THEN Strip(RowGet(df, r, c.win_col)) ELSE <<>>

AffWin(winner_val) == IF StartsWith(Lower(winner_val), kw_aff) THEN 1 ELSE 0

\* the winner test of the affirmative side copied for the negative side
NegWin_CopiedTest(winner_val) ==
    IF StartsWith(Lower(winner_val), kw_aff) THEN 1 ELSE 0

NegWin(winner_val) == IF StartsWith(Lower(winner_val), kw_neg) THEN 1 ELSE 0

\* the score cell of a side
Blob(df, r, points_col) ==
    IF Truthy(points_col) THEN RowGet(df, r, points_col) ELSE <<>>

\* sum(nums) / len(nums)
Mean(nums) == RDivInt(SumRat(nums), Len(nums))

\* each placeholder credited with the whole mean
Placeholders_WholeMean(n1, n2, nums) ==
    <<[name |-> n1, score |-> Mean(nums)], [name |-> n2, score |-> Mean(nums)]>>

\* the two placeholder participants of a side without parseable names
Placeholders(n1, n2, nums) ==
    LET team_speaks == Mean(nums)
    IN  <<[name |-> n1, score |-> RDivInt(team_speaks, 2)],
          [name |-> n2, score |-> RDivInt(team_speaks, 2)]>>

\* the participants of a side: name-score pairs, else the numeric fallback
SidePairs(blob, n1, n2) ==
    LET pairs == extract_name_score_pairs(blob)
    IN  IF pairs # <<>> THEN pairs
        ELSE LET nums == extract_numbers(blob)
             IN  IF nums # <<>> THEN Placeholders(n1, n2, nums) ELSE <<>>

\* sum(score for _, score in pairs) if pairs else 0.0
SpeaksRound(pairs) ==
    IF pairs # <<>> THEN SumRat([i \in DOMAIN pairs |-> pairs[i].score]) ELSE Zero

\* the local variables of the row loop after the side totals are computed
NormalizeRow(df, r, c) ==
    LET winner_val == WinnerVal(df, r, c)
        aff_blob == Blob(df, r, c.aff_points_col)
        neg_blob == Blob(df, r, c.neg_points_col)
        aff_pairs == SidePairs(aff_blob, AffSpeaker1, AffSpeaker2)
        neg_pairs == SidePairs(neg_blob, NegSpeaker1, NegSpeaker2)
    IN  [aff_team |-> Strip(RowGet(df, r, c.aff_col)),
         neg_team |-> Strip(RowGet(df, r, c.neg_col)),
         winner_val |-> winner_val,
         aff_win |-> AffWin(winner_val),
         neg_win |-> NegWin(winner_val),
         aff_blob |-> aff_blob,
         neg_blob |-> neg_blob,
         aff_pairs |-> aff_pairs,
         neg_pairs |-> neg_pairs,
         aff_team_speaks_round |-> SpeaksRound(aff_pairs),
         neg_team_speaks_round |-> SpeaksRound(neg_pairs)]

\* ------------------------------------------------------------------------
\* Per-tournament accumulation
\* ------------------------------------------------------------------------
\* the per-tournament accumulators as created for each tournament
NewTour ==
    [team_wins |-> <<>>, team_rounds |-> <<>>, team_speaks |-> <<>>,
     speaker_total_speaks |-> <<>>, speaker_rounds |-> <<>>,
     speaker_wins |-> <<>>]

\* the update of a team without the test  if team:
UpdateTeam_NoGuard(t, team, win, speaks_round) ==
    [t EXCEPT !.team_wins = IncInt(@, team, win),
              !.team_rounds = IncInt(@, team, 1),
              !.team_speaks = IncRat(@, team, speaks_round)]

\* if team: wins += win; rounds += 1; speaks += speaks_round
UpdateTeam(t, team, win, speaks_round) ==
    IF team # <<>>
    THEN [t EXCEPT !.team_wins = IncInt(@, team, win),
                   !.team_rounds = IncInt(@, team, 1),
                   !.team_speaks = IncRat(@, team, speaks_round)]
    ELSE t

\* for name, score in pairs: ... from the i-th pair on
RECURSIVE UpdateSpeakers(_, _, _, _)
UpdateSpeakers(t, pairs, win, i) ==
    IF i > Len(pairs) THEN t
    ELSE LET name == Strip(pairs[i].name)
         IN  IF name = <<>> THEN UpdateSpeakers(t, pairs, win, i + 1)
             ELSE UpdateSpeakers(
                    [t EXCEPT
                       !.speaker_total_speaks = IncRat(@, name, pairs[i].score),
                       !.speaker_rounds = IncInt(@, name, 1),
                       !.speaker_wins = IF win = 1 THEN IncInt(@, name, 1) ELSE @],
                    pairs, win, i + 1)

\* the accumulators after one row with the locals x
AccumulateRow(t, x) ==
    LET t1 == UpdateTeam(t, x.aff_team, x.aff_win, x.aff_team_speaks_round)
        t2 == UpdateTeam(t1, x.neg_team, x.neg_win, x.neg_team_speaks_round)
        t3 == UpdateSpeakers(t2, x.aff_pairs, x.aff_win, 1)
    IN  UpdateSpeakers(t3, x.neg_pairs, x.neg_win, 1)

\* ------------------------------------------------------------------------
\* Tables
\* ------------------------------------------------------------------------
\* wins / rounds if rounds > 0 else 0.0
WinPct(wins, rounds) == IF rounds > 0 THEN Rat(wins, rounds) ELSE Zero

\* a before b in descending order of the key lists a and b
KeyGreater(a, b) ==
    \E i \in DOMAIN a : /\ RLess(b[i], a[i])
                        /\ \A j \in 1..(i - 1) : a[j] = b[j]

\* DataFrame.sort_values(by = keys, ascending = False) followed by
\* sort_values, reset_index: rows in descending order of their keys (keys[i]
\* the sort columns of rows[i]), rows with equal keys in their order of
\* insertion
SortDesc(rows, keys) ==
    LET n == Len(rows)
        pos(i) == Cardinality({j \in 1..n : KeyGreater(keys[j], keys[i])})
                    + Cardinality({j \in 1..(i - 1) : keys[j] = keys[i]})
                    + 1
    IN  [p \in 1..n |-> rows[CHOOSE i \in 1..n : pos(i) = p]]

\* team_rows: one row per key of team_rounds
TeamRows(t) ==
    [i \in DOMAIN t.team_rounds |->
        LET team == t.team_rounds[i].k
            wins == Get(t.team_wins, team, 0)
            rounds_played == Get(t.team_rounds, team, 0)
            speaks == Get(t.team_speaks, team, Zero)
        IN  [Team |-> team,
             Wins |-> wins,
             Rounds |-> rounds_played,
             WinPct |-> Round(WinPct(wins, rounds_played), 3),
             TotalSpeaks |-> Round(speaks, 2)]]

\* team_df: sorted by Win% descending, ties by Total Speaks descending
TeamDf(t) ==
    LET rows == TeamRows(t)
    IN  SortDesc(rows, [i \in DOMAIN rows |-> <<rows[i].WinPct, rows[i].TotalSpeaks>>])

\* speaker_rows: one row per key of speaker_total_speaks
SpeakerRows(t) ==
    [i \in DOMAIN t.speaker_total_speaks |->
        LET name == t.speaker_total_speaks[i].k
        IN  [Speaker |-> name,
             TotalSpeaks |-> Round(t.speaker_total_speaks[i].v, 2),
             Rounds |-> Get(t.speaker_rounds, name, 0),
             Wins |-> Get(t.speaker_wins, name, 0)]]

\* speaker_df: sorted by total speaks descending
SpeakerDf(t) ==
    LET rows == SpeakerRows(t)
    IN  SortDesc(rows, [i \in DOMAIN rows |-> <<rows[i].TotalSpeaks>>])

\* ------------------------------------------------------------------------
\* Cross-tournament accumulation
\* ------------------------------------------------------------------------
\* the cross-tournament accumulators as created by one run
NewCross ==
    [cross_team_wins |-> <<>>, cross_team_rounds |-> <<>>,
     cross_team_speaks_total |-> <<>>,
     cross_team_tournaments_attended |-> <<>>,
     cross_speaker_speaks_by_tournament |-> <<>>,
     cross_speaker_rounds_by_tournament |-> <<>>,
     cross_speaker_wins |-> <<>>, cross_speaker_rounds |-> <<>>]

\* the team loop with  =  in place of  +=
RECURSIVE CrossTeams_Assign(_, _, _)
CrossTeams_Assign(x, t, i) ==
    IF i > Len(t.team_rounds) THEN x
    ELSE LET team == t.team_rounds[i].k
         IN  CrossTeams_Assign(
               [x EXCEPT
                  !.cross_team_wins = Put(@, team, Get(t.team_wins, team, 0)),
                  !.cross_team_rounds = Put(@, team, Get(t.team_rounds, team, 0)),
                  !.cross_team_speaks_total =
                      Put(@, team, Get(t.team_speaks, team, Zero))],
               t, i + 1)

\* the team loop of a tournament, from the i-th key of team_rounds on
RECURSIVE CrossTeams(_, _, _)
CrossTeams(x, t, i) ==
    IF i > Len(t.team_rounds) THEN x
    ELSE LET team == t.team_rounds[i].k
         IN  CrossTeams(
               [x EXCEPT
                  !.cross_team_wins = IncInt(@, team, Get(t.team_wins, team, 0)),
                  !.cross_team_rounds = IncInt(@, team, Get(t.team_rounds, team, 0)),
                  !.cross_team_speaks_total =
                      IncRat(@, team, Get(t.team_speaks, team, Zero))],
               t, i + 1)

\* the speaker loop of a tournament, from the i-th key of
\* speaker_total_speaks on
RECURSIVE CrossSpeakers(_, _, _, _)
CrossSpeakers(x, t, tournament_name, i) ==
    IF i > Len(t.speaker_total_speaks) THEN x
    ELSE LET name == t.speaker_total_speaks[i].k
             total == t.speaker_total_speaks[i].v
             rounds == Get(t.speaker_rounds, name, 0)
             speaks_map == Get(x.cross_speaker_speaks_by_tournament, name, <<>>)
             rounds_map == Get(x.cross_speaker_rounds_by_tournament, name, <<>>)
         IN  CrossSpeakers(
               [x EXCEPT
                  !.cross_speaker_speaks_by_tournament =
                      Put(@, name,
                          Put(speaks_map, tournament_name,
                              RAdd(Get(speaks_map, tournament_name, Zero), total))),
                  !.cross_speaker_rounds_by_tournament =
                      Put(@, name,
                          Put(rounds_map, tournament_name,
                              Get(rounds_map, tournament_name, 0) + rounds)),
                  !.cross_speaker_wins = IncInt(@, name, Get(t.speaker_wins, name, 0)),
                  !.cross_speaker_rounds = IncInt(@, name, rounds)],
               t, tournament_name, i + 1)

\* for team in team_rounds.keys(): cross_team_tournaments_attended[team] += 1
RECURSIVE CrossAttended(_, _, _)
CrossAttended(x, t, i) ==
    IF i > Len(t.team_rounds) THEN x
    ELSE CrossAttended(
           [x EXCEPT !.cross_team_tournaments_attended =
                         IncInt(@, t.team_rounds[i].k, 1)],
           t, i + 1)

\* the cross-tournament accumulators after the tables of one tournament
FinishTournament(x, t, tournament_name) ==
    CrossAttended(CrossSpeakers(CrossTeams(x, t, 1), t, tournament_name, 1), t, 1)

\* cross_team_rows: one row per key of cross_team_wins
CrossTeamRows(x) ==
    [i \in DOMAIN x.cross_team_wins |->
        LET team == x.cross_team_wins[i].k
            wins == x.cross_team_wins[i].v
            rounds == Get(x.cross_team_rounds, team, 0)
            speaks == Get(x.cross_team_speaks_total, team, Zero)
        IN  [Team |-> team,
             Wins |-> wins,
             Rounds |-> rounds,
             WinPct |-> Round(WinPct(wins, rounds), 4),
             TotalSpeaks |-> Round(speaks, 2),
             TournamentsAttended |->
                 Get(x.cross_team_tournaments_attended, team, 0)]]

CrossTeamDf(x) ==
    LET rows == CrossTeamRows(x)
    IN  SortDesc(rows, [i \in DOMAIN rows |-> <<rows[i].WinPct, rows[i].TotalSpeaks>>])

\* speaker_overall_rows: one row per speaker with a tournament in its map
SpeakerOverallRows(x) ==
    LET rows ==
          [i \in DOMAIN x.cross_speaker_speaks_by_tournament |->
              LET name == x.cross_speaker_speaks_by_tournament[i].k
                  tournament_map == x.cross_speaker_speaks_by_tournament[i].v
                  tournaments_attended == Len(tournament_map)
                  total_sum == SumRat([j \in DOMAIN tournament_map |->
                                          tournament_map[j].v])
              IN  IF tournaments_attended = 0 THEN <<>>
                  ELSE <<[Speaker |-> name,
                          AvgSpeaks |->
                              Round(RDivInt(total_sum, tournaments_attended), 3),
                          TotalSpeaks |-> Round(total_sum, 2),
                          TournamentsAttended |-> tournaments_attended,
                          WinPct |->
                              Round(WinPct(Get(x.cross_speaker_wins, name, 0),
                                           Get(x.cross_speaker_rounds, name, 0)),
                                    4)]>>]
        Flat[i \in 0..Len(rows)] ==
            IF i = 0 THEN <<>> ELSE Flat[i - 1] \o rows[i]
    IN  Flat[Len(rows)]

SpeakerOverallDf(x) ==
    LET rows == SpeakerOverallRows(x)
    IN  SortDesc(rows, [i \in DOMAIN rows |-> <<rows[i].AvgSpeaks, rows[i].WinPct>>])

\* ------------------------------------------------------------------------
\* Inputs: the round files a user can upload
\* ------------------------------------------------------------------------
\* most rounds a store may hold, and most files in one upload
MaxRounds == 3

MaxUpload == 2

\* Aff,Neg,Win,Aff Points,Neg Points /
\* X,Y,Aff,"Al 28.5 Bo 27","Cy 26 Di 25" / X,Y," NEG","Al 27","Cy 28.5 Di 26" /
\* Y,X,(blank),"Bo 27",(blank)
RoundA ==
    [columns |-> <<<<"A","f","f">>,
                   <<"N","e","g">>,
                   <<"W","i","n">>,
                   <<"A","f","f"," ","P","o","i","n","t","s">>,
                   <<"N","e","g"," ","P","o","i","n","t","s">>>>,
     rows |-> <<<<<<"X">>,
                  <<"Y">>,
                  <<"A","f","f">>,
                  <<"A","l"," ","2","8",".","5"," ","B","o"," ","2","7">>,
                  <<"C","y"," ","2","6"," ","D","i"," ","2","5">>>>,
                <<<<"X">>,
                  <<"Y">>,
                  <<" ","N","E","G">>,
                  <<"A","l"," ","2","7">>,
                  <<"C","y"," ","2","8",".","5"," ","D","i"," ","2","6">>>>,
                <<<<"Y">>,
                  <<"X">>,
                  <<"n","a","n">>,
                  <<"B","o"," ","2","7">>,
                  <<"n","a","n">>>>>>]

\* untidy labels, a blank winner, scores without names:
\* " aff<tab> team ", "\"Neg\"", "Winner", "Aff  Points", "Neg Points" /
\* Y, " X", " ", "Bo 27.33", "27 27 28"
RoundB ==
    [columns |-> <<<<" ","a","f","f","\t"," ","t","e","a","m"," ">>,
                   <<"\"","N","e","g","\"">>,
                   <<"W","i","n","n","e","r">>,
                   <<"A","f","f"," "," ","P","o","i","n","t","s">>,
                   <<"N","e","g"," ","P","o","i","n","t","s">>>>,
     rows |-> <<<<<<"Y">>,
                  <<" ","X">>,
                  <<" ">>,
                  <<"B","o"," ","2","7",".","3","3">>,
                  <<"2","7"," ","2","7"," ","2","8">>>>>>]

\* no column for the negative team: Aff,Win,Aff Points / X,Aff,"Al 28"
RoundC ==
    [columns |-> <<<<"A","f","f">>,
                   <<"W","i","n">>,
                   <<"A","f","f"," ","P","o","i","n","t","s">>>>,
     rows |-> <<<<<<"X">>,
                  <<"A","f","f">>,
                  <<"A","l"," ","2","8">>>>>>]

\* no winner column and no affirmative score column:
\* Aff Team,Neg Team,Neg Points / X," ","27.5 26.0" / Y,X,(blank)
RoundD ==
    [columns |-> <<<<"A","f","f"," ","T","e","a","m">>,
                   <<"N","e","g"," ","T","e","a","m">>,
                   <<"N","e","g"," ","P","o","i","n","t","s">>>>,
     rows |-> <<<<<<"X">>,
                  <<" ">>,
                  <<"2","7",".","5"," ","2","6",".","0">>>>,
                <<<<"Y">>,
                  <<"X">>,
                  <<"n","a","n">>>>>>]

\* An uploaded file: the engine of pd.read_csv that parses it ("c" at the
\* first attempt, "python" at the second, "none" when both raise) and the
\* frame it yields
Files ==
    {[engine |-> "c", df |-> RoundA], [engine |-> "c", df |-> RoundB],
     [engine |-> "c", df |-> RoundC], [engine |-> "python", df |-> RoundD],
     [engine |-> "none", df |-> [columns |-> <<>>, rows |-> <<>>]]}

Uploads == UNION {[1..n -> Files] : n \in 0..MaxUpload}

\* the text of the tournament-name input: empty, or a name
NameInputs == {"", "T1", "T2"}

Modes == {"Append rounds to existing", "Overwrite existing tournament"}

\* ------------------------------------------------------------------------
\* Initial state
\* ------------------------------------------------------------------------
NoRow ==
    [aff_team |-> <<>>, neg_team |-> <<>>, winner_val |-> <<>>,
     aff_win |-> 0, neg_win |-> 0, aff_blob |-> <<>>, neg_blob |-> <<>>,
     aff_pairs |-> <<>>, neg_pairs |-> <<>>,
     aff_team_speaks_round |-> Zero, neg_team_speaks_round |-> Zero]

NoOut == [per_tournament |-> <<>>, cross_team_df |-> <<>>,
          speaker_overall_df |-> <<>>]

\* a script run that does not enter the Process handler leaves none of its
\* variables behind
NoProcess ==
    /\ pc' = "idle"
    /\ ti' = 0 /\ ri' = 0 /\ rowi' = 0
    /\ cross' = NewCross
    /\ tour' = NewTour
    /\ row' = NoRow
    /\ out' = NoOut
    /\ warnings' = <<>>
    /\ prev_out' = NoOut

Init ==
    /\ tournaments = <<>>
    /\ pc = "idle"
    /\ ti = 0 /\ ri = 0 /\ rowi = 0
    /\ cross = NewCross
    /\ tour = NewTour
    /\ row = NoRow
    /\ out = NoOut
    /\ warnings = <<>>
    /\ prev_out = NoOut

\* a button can be clicked when no run is in progress
CanClick == pc \in {"idle", "done"}

\* ------------------------------------------------------------------------
\* Sidebar: Add Tournament, Remove
\* ------------------------------------------------------------------------
\* the frame of each file, columns cleaned
Cleaned == [f \in Files |-> clean_columns(f.df)]

\* the frames of the files that could be read, columns cleaned, in order
ReadRounds(uploaded) ==
    LET F[i \in 0..Len(uploaded)] ==
          IF i = 0 THEN <<>>
          ELSE IF uploaded[i].engine = "none" THEN F[i - 1]
               ELSE Append(F[i - 1], Cleaned[uploaded[i]])
    IN  F[Len(uploaded)]

\* an Add that always replaces the entry
StoreRounds_Replace(store, tname, rounds, mode) == Put(store, tname, rounds)

\* the store after a successful Add
StoreRounds(store, tname, rounds, mode) ==
    IF Has(store, tname) /\ mode = "Append rounds to existing"
    THEN Put(store, tname, Get(store, tname, <<>>) \o rounds)
    ELSE Put(store, tname, rounds)

RECURSIVE TotalRounds(_)
TotalRounds(store) ==
    IF store = <<>> THEN 0 ELSE Len(Head(store).v) + TotalRounds(Tail(store))

\* the store after the Add handler: unchanged without a name, without a
\* file, or without a readable file
AddStore(store, tname, uploaded, mode) ==
    IF tname = "" THEN store            \* "Please enter a tournament name."
    ELSE IF uploaded = <<>> THEN store  \* "Please upload at least one round CSV."
    ELSE LET rounds == ReadRounds(uploaded)
         IN  IF rounds = <<>> THEN store   \* "No valid CSVs uploaded."
             ELSE StoreRounds(store, tname, rounds, mode)

AddTournament(tname, uploaded, mode) ==
    /\ CanClick
    /\ TotalRounds(AddStore(tournaments, tname, uploaded, mode)) <= MaxRounds
    /\ tournaments' = AddStore(tournaments, tname, uploaded, mode)
    /\ NoProcess

\* del st.session_state.tournaments[name]
Del(store, name) == SelectSeq(store, LAMBDA e : e.k # name)

RemoveTournament(name) ==
    /\ CanClick
    /\ Has(tournaments, name)
    /\ tournaments' = Del(tournaments, name)
    /\ NoProcess

\* ------------------------------------------------------------------------
\* Process All Tournaments
\* ------------------------------------------------------------------------
\* the button with cross-tournament accumulators that outlive the run
ClickProcess_KeepCross ==
    /\ pc \in {"idle", "done"}
    /\ tournaments # <<>>
    /\ pc' = "tournament"
    /\ ti' = 1 /\ ri' = 0 /\ rowi' = 0
    /\ tour' = NewTour
    /\ row' = NoRow
    /\ out' = NoOut
    /\ warnings' = <<>>
    /\ prev_out' = IF pc = "done" THEN out ELSE NoOut
    /\ UNCHANGED <<tournaments, cross>>

\* the button: stop on an empty store, else create the cross-tournament
\* accumulators and enter the tournament loop
ClickProcess ==
    /\ CanClick
    /\ UNCHANGED tournaments
    /\ IF tournaments = <<>>
       THEN NoProcess   \* "No tournaments available.", st.stop()
       ELSE /\ pc' = "tournament"
            /\ ti' = 1 /\ ri' = 0 /\ rowi' = 0
            /\ cross' = NewCross
            /\ tour' = NewTour
            /\ row' = NoRow
            /\ out' = NoOut
            /\ warnings' = <<>>
            /\ prev_out' = IF pc = "done" THEN out ELSE NoOut

\* the tournament and the round the loops are at
CurTournament == tournaments[ti]

CurRound == CurTournament.v[ri]

\* for tournament_name, rounds in tournaments.items(): fresh accumulators
BeginTournament ==
    /\ pc = "tournament"
    /\ ti <= Len(tournaments)
    /\ tour' = NewTour
    /\ ri' = 1
    /\ pc' = "round"
    /\ UNCHANGED <<tournaments, ti, rowi, cross, row, out, warnings, prev_out>>

\* a round without detectable team columns: warn and continue
SkipRound ==
    /\ pc = "round"
    /\ ri <= Len(CurTournament.v)
    /\ CannotDetectTeams(DetectColumns(CurRound))
    /\ warnings' = Append(warnings, CurTournament.k)
    /\ ri' = ri + 1
    /\ UNCHANGED <<tournaments, pc, ti, rowi, cross, tour, row, out, prev_out>>

EnterRound ==
    /\ pc = "round"
    /\ ri <= Len(CurTournament.v)
    /\ ~CannotDetectTeams(DetectColumns(CurRound))
    /\ pc' = "row"
    /\ rowi' = 1
    /\ UNCHANGED <<tournaments, ti, ri, cross, tour, row, out, warnings, prev_out>>

\* one iteration of  for _, row in df.iterrows()
ProcessRow ==
    /\ pc = "row"
    /\ rowi <= Len(CurRound.rows)
    /\ row' = NormalizeRow(CurRound, CurRound.rows[rowi], DetectColumns(CurRound))
    /\ tour' = AccumulateRow(tour, row')
    /\ rowi' = rowi + 1
    /\ UNCHANGED <<tournaments, pc, ti, ri, cross, out, warnings, prev_out>>

EndRound ==
    /\ pc = "row"
    /\ rowi > Len(CurRound.rows)
    /\ ri' = ri + 1
    /\ pc' = "round"
    /\ UNCHANGED <<tournaments, ti, rowi, cross, tour, row, out, warnings, prev_out>>

\* after the rounds of a tournament: its tables, and its totals added to
\* the cross-tournament accumulators
EndTournament ==
    /\ pc = "round"
    /\ ri > Len(CurTournament.v)
    /\ out' = [out EXCEPT !.per_tournament =
                  Append(@, [tournament |-> CurTournament.k,
                             team_df |-> TeamDf(tour),
                             speaker_df |-> SpeakerDf(tour)])]
    /\ cross' = FinishTournament(cross, tour, CurTournament.k)
    /\ ti' = ti + 1
    /\ pc' = "tournament"
    /\ UNCHANGED <<tournaments, ri, rowi, tour, row, warnings, prev_out>>

\* after the last tournament: the cross-tournament tables
Finish ==
    /\ pc = "tournament"
    /\ ti > Len(tournaments)
    /\ out' = [out EXCEPT !.cross_team_df = CrossTeamDf(cross),
                          !.speaker_overall_df = SpeakerOverallDf(cross)]
    /\ pc' = "done"
    /\ UNCHANGED <<tournaments, ti, ri, rowi, cross, tour, row, warnings, prev_out>>

\* ------------------------------------------------------------------------
\* The Process handler as one function of the store
\* ------------------------------------------------------------------------
\* the row loop of a round from row i on
RECURSIVE RunRows(_, _, _, _)
RunRows(t, df, c, i) ==
    IF i > Len(df.rows) THEN t
    ELSE RunRows(AccumulateRow(t, NormalizeRow(df, df.rows[i], c)), df, c, i + 1)

\* the round loop of a tournament from round i on
RECURSIVE RunRounds(_, _, _)
RunRounds(t, rounds, i) ==
    IF i > Len(rounds) THEN t
    ELSE LET c == DetectColumns(rounds[i])
         IN  RunRounds(IF CannotDetectTeams(c) THEN t
                       ELSE RunRows(t, rounds[i], c, 1),
                       rounds, i + 1)

\* the tournament loop from tournament i on: the accumulators x and the
\* per-tournament tables shown so far
RECURSIVE RunTournaments(_, _, _, _)
RunTournaments(store, i, x, shown) ==
    IF i > Len(store) THEN [cross |-> x, per_tournament |-> shown]
    ELSE LET t == RunRounds(NewTour, store[i].v, 1)
         IN  RunTournaments(store, i + 1,
                            FinishTournament(x, t, store[i].k),
                            Append(shown, [tournament |-> store[i].k,
                                           team_df |-> TeamDf(t),
                                           speaker_df |-> SpeakerDf(t)]))

\* the tables one run displays for a non-empty store
RunAll(store) ==
    LET r == RunTournaments(store, 1, NewCross, <<>>)
    IN  [per_tournament |-> r.per_tournament,
         cross_team_df |-> CrossTeamDf(r.cross),
         speaker_overall_df |-> SpeakerOverallDf(r.cross)]

Next ==
    \/ \E tname \in NameInputs, uploaded \in Uploads, mode \in Modes :
          AddTournament(tname, uploaded, mode)
    \/ \E name \in NameInputs : RemoveTournament(name)
    \/ ClickProcess
    \/ BeginTournament
    \/ SkipRound
    \/ EnterRound
    \/ ProcessRow
    \/ EndRound
    \/ EndTournament
    \/ Finish

Spec == Init /\ [][Next]_vars

\* ------------------------------------------------------------------------
\* Reference quantities, counted directly from the rows of the store
\* ------------------------------------------------------------------------
\* every row of every round with both team columns, with the index of its
\* tournament and the row as normalised
RECURSIVE StoreRows(_, _, _, _)
StoreRows(store, i, j, k) ==
    IF i > Len(store) THEN <<>>
    ELSE IF j > Len(store[i].v) THEN StoreRows(store, i + 1, 1, 1)
    ELSE LET df == store[i].v[j]
             c == DetectColumns(df)
         IN  IF ~Truthy(c.aff_col) \/ ~Truthy(c.neg_col) \/ k > Len(df.rows)
             THEN StoreRows(store, i, j + 1, 1)
             ELSE <<[ti |-> i, x |-> NormalizeRow(df, df.rows[k], c)]>>
                    \o StoreRows(store, i, j, k + 1)

\* the rows whose tournament is one of the indices in sel
RowsIn(store, sel) == SelectSeq(StoreRows(store, 1, 1, 1), LAMBDA e : e.ti \in sel)

ScoreSum(pairs) == SumRat([i \in DOMAIN pairs |-> pairs[i].score])

\* the sides of the row x taken by the team
SideCount(x, team) ==
    (IF x.aff_team = team THEN 1 ELSE 0) + (IF x.neg_team = team THEN 1 ELSE 0)

SideWins(x, team) ==
    (IF x.aff_team = team /\ x.aff_win = 1 THEN 1 ELSE 0)
      + (IF x.neg_team = team /\ x.neg_win = 1 THEN 1 ELSE 0)

SideSpeaks(x, team) ==
    RAdd(IF x.aff_team = team THEN ScoreSum(x.aff_pairs) ELSE Zero,
         IF x.neg_team = team THEN ScoreSum(x.neg_pairs) ELSE Zero)

RECURSIVE SumInt(_)
SumInt(xs) == IF xs = <<>> THEN 0 ELSE Head(xs) + SumInt(Tail(xs))

RefRounds(rows, team) == SumInt([i \in DOMAIN rows |-> SideCount(rows[i].x, team)])

RefWins(rows, team) == SumInt([i \in DOMAIN rows |-> SideWins(rows[i].x, team)])

RefSpeaks(rows, team) == SumRat([i \in DOMAIN rows |-> SideSpeaks(rows[i].x, team)])

\* the tournaments with a row in which the team takes a side
RefAttended(rows, team) ==
    Cardinality({rows[i].ti : i \in {j \in DOMAIN rows : SideCount(rows[j].x, team) > 0}})

\* the participants of both sides of the row x
RowPairs(x) == x.aff_pairs \o x.neg_pairs

\* the scores credited to the speaker in the row x
SpeakerScores(x, name) ==
    LET ps == SelectSeq(RowPairs(x), LAMBDA q : Strip(q.name) = name)
    IN  [i \in DOMAIN ps |-> ps[i].score]

RefSpeakerTotal(rows, name) ==
    SumRat([i \in DOMAIN rows |-> SumRat(SpeakerScores(rows[i].x, name))])

RefSpeakerAttended(rows, name) ==
    Cardinality({rows[i].ti :
                   i \in {j \in DOMAIN rows : SpeakerScores(rows[j].x, name) # <<>>}})

AllRows == RowsIn(tournaments, DOMAIN tournaments)

\* the teams with a side in some row, the empty label excluded
RefTeams(rows) ==
    ({rows[i].x.aff_team : i \in DOMAIN rows} \cup {rows[i].x.neg_team : i \in DOMAIN rows})
      \ {<<>>}

\* ------------------------------------------------------------------------
\* Claims
\* ------------------------------------------------------------------------

\* C1: for every processed row the affirmative win flag and the negative
\* win flag are never both set.
C1_WinFlagsExclusive == ~(row.aff_win = 1 /\ row.neg_win = 1)

\* a row with an affirmative winner, and one with a negative winner in capitals
C1_Witness ==
    /\ pc = "row" /\ rowi = 3
    /\ row.winner_val = <<"N","E","G">>
    /\ row.neg_win = 1 /\ row.aff_win = 0

\* the step that processes a row whose winner cell is blank, missing or
\* starts with neither "aff" nor "neg"
UndeterminedRowStep ==
    /\ pc = "row" /\ rowi <= Len(CurRound.rows) /\ rowi' = rowi + 1
    /\ LET c == DetectColumns(CurRound)
           cell == IF c.win_col = None THEN <<>>
                   ELSE RowGet(CurRound, CurRound.rows[rowi], c.win_col)
           w == Lower(Strip(cell))
       IN  ~StartsWith(w, kw_aff) /\ ~StartsWith(w, kw_neg)

NoWinCredited ==
    /\ \A i \in DOMAIN tour'.team_wins :
          tour'.team_wins[i].v = Get(tour.team_wins, tour'.team_wins[i].k, 0)
    /\ \A i \in DOMAIN tour'.speaker_wins :
          tour'.speaker_wins[i].v = Get(tour.speaker_wins, tour'.speaker_wins[i].k, 0)

\* C2 as stated: a row with an undetermined winner adds one round and the
\* side's score sum to the affirmative and to the negative team, and a win
\* to no team and no speaker.
C2_Original ==
    [][UndeterminedRowStep =>
         /\ Get(tour'.team_rounds, row'.aff_team, 0)
              = Get(tour.team_rounds, row'.aff_team, 0) + 1
         /\ Get(tour'.team_rounds, row'.neg_team, 0)
              = Get(tour.team_rounds, row'.neg_team, 0) + 1
         /\ Get(tour'.team_speaks, row'.aff_team, Zero)
              = RAdd(Get(tour.team_speaks, row'.aff_team, Zero),
                     ScoreSum(row'.aff_pairs))
         /\ Get(tour'.team_speaks, row'.neg_team, Zero)
              = RAdd(Get(tour.team_speaks, row'.neg_team, Zero),
                     ScoreSum(row'.neg_pairs))
         /\ NoWinCredited]_vars

\* C2 as amended: a row with an undetermined winner adds one round and the
\* side's score sum to the team of each side whose trimmed team identifier
\* is not empty, credits a side with an empty identifier to no team, and
\* adds a win to no team and no speaker.
C2_UndeterminedRow ==
    [][UndeterminedRowStep =>
         /\ \A team \in {row'.aff_team, row'.neg_team} \ {<<>>} :
               /\ Get(tour'.team_rounds, team, 0)
                    = Get(tour.team_rounds, team, 0) + SideCount(row', team)
               /\ Get(tour'.team_speaks, team, Zero)
                    = RAdd(Get(tour.team_speaks, team, Zero), SideSpeaks(row', team))
         /\ ~Has(tour'.team_rounds, <<>>)
         /\ \A i \in DOMAIN tour'.team_rounds :
               tour'.team_rounds[i].k \notin {row'.aff_team, row'.neg_team}
                 => tour'.team_rounds[i].v
                      = Get(tour.team_rounds, tour'.team_rounds[i].k, 0)
         /\ NoWinCredited]_vars

\* a row without a winner column and with an empty negative team has been
\* processed: the affirmative team has its round, no team has a win
C2_Witness ==
    /\ pc = "row" /\ rowi = 2
    /\ row.winner_val = <<>> /\ row.neg_team = <<>> /\ row.aff_team = <<"X">>
    /\ Get(tour.team_rounds, <<"X">>, 0) = 1
    /\ Get(tour.team_wins, <<"X">>, 0) = 0
    /\ row.neg_pairs # <<>>

\* C3 as stated: in the cross-tournament team leaderboard the winRate of a
\* team is its wins over all rounds divided by its rounds over all rounds
\* (0 without rounds).
C3_Original ==
    pc = "done" =>
      \A i \in DOMAIN out.cross_team_df :
         LET r == out.cross_team_df[i]
         IN  r.WinPct = WinPct(RefWins(AllRows, r.Team), RefRounds(AllRows, r.Team))

\* the tournaments at the last n places of the store
LastN(n) == {i \in DOMAIN tournaments : i > Len(tournaments) - n}

\* the cross-tournament team accumulators hold the totals of the rows
CrossTeamsAre(rows) ==
    /\ Range(Keys(cross.cross_team_rounds)) = RefTeams(rows)
    /\ \A team \in RefTeams(rows) :
          /\ Get(cross.cross_team_wins, team, 0) = RefWins(rows, team)
          /\ Get(cross.cross_team_rounds, team, 0) = RefRounds(rows, team)
          /\ Get(cross.cross_team_speaks_total, team, Zero) = RefSpeaks(rows, team)
          /\ Get(cross.cross_team_tournaments_attended, team, 0)
               = RefAttended(rows, team)

Resolvable(rounds) ==
    SelectSeq(rounds,
              LAMBDA df : /\ Truthy(DetectColumns(df).aff_col)
                          /\ Truthy(DetectColumns(df).neg_col))

WithoutSkipped(store) ==
    [i \in DOMAIN store |-> [k |-> store[i].k, v |-> Resolvable(store[i].v)]]

\* C5: a round without a detectable affirmative or negative team column
\* changes no accumulator, and the run yields what it yields on the store
\* without that round.
C5_SkippedRoundAbsent ==
    /\ pc = "round" =>
         tour = RunRounds(NewTour, Resolvable(SubSeq(CurTournament.v, 1, ri - 1)), 1)
    /\ pc = "done" =>
         /\ out = RunAll(WithoutSkipped(tournaments))
         /\ cross = RunTournaments(WithoutSkipped(tournaments), 1, NewCross, <<>>).cross

\* a run that skipped a round between two rounds it processed
C5_Witness ==
    /\ pc = "done"
    /\ warnings # <<>>
    /\ \E i \in DOMAIN tournaments :
          /\ Len(tournaments[i].v) = 3
          /\ Len(Resolvable(tournaments[i].v)) = 2
          /\ CannotDetectTeams(DetectColumns(tournaments[i].v[2]))
    /\ out.cross_team_df # <<>>

\* C6: a second run over an unchanged store displays the tables of the
\* first.
C6_SecondRunSame == (pc = "done" /\ prev_out # NoOut) => out = prev_out

C6_Witness ==
    /\ pc = "done"
    /\ prev_out # NoOut
    /\ Len(out.cross_team_df) = 2
    /\ Len(out.per_tournament) = 2

\* the table lists no team before a team with a greater exact win rate,
\* nor before one with the same exact win rate and a greater total score
ExactOrder(table, wins, rounds, speaks) ==
    \A i, j \in DOMAIN table :
       i < j =>
         LET a == table[i].Team
             b == table[j].Team
             wa == WinPct(Get(wins, a, 0), Get(rounds, a, 0))
             wb == WinPct(Get(wins, b, 0), Get(rounds, b, 0))
         IN  /\ ~RLess(wa, wb)
             /\ wa = wb => ~RLess(Get(speaks, a, Zero), Get(speaks, b, Zero))

\* C7 as stated: the team leaderboards are in descending order of the exact
\* win rate, equal win rates in descending order of the exact total score.
C7_Original ==
    /\ (pc = "tournament" /\ ti > 1) =>
         ExactOrder(out.per_tournament[ti - 1].team_df,
                    tour.team_wins, tour.team_rounds, tour.team_speaks)
    /\ pc = "done" =>
         ExactOrder(out.cross_team_df, cross.cross_team_wins,
                    cross.cross_team_rounds, cross.cross_team_speaks_total)

\* C8 as stated: tournamentsAttended is the number of tournaments in which
\* the speaker has a score, and avgPerTournament the sum of the speaker's
\* tournament totals divided by it.
C8_Original ==
    pc = "done" =>
      \A i \in DOMAIN out.speaker_overall_df :
         LET r == out.speaker_overall_df[i]
         IN  /\ r.TournamentsAttended = RefSpeakerAttended(AllRows, r.Speaker)
             /\ r.AvgSpeaks = RDivInt(RefSpeakerTotal(AllRows, r.Speaker),
                                      r.TournamentsAttended)

HasDigit(blob) == \E i \in DOMAIN blob : IsDigit(blob[i])

\* the participants of a side whose cell yields no name-score pair
FallbackSide(blob, pairs, speaks_round) ==
    extract_name_score_pairs(blob) = <<>> =>
      IF HasDigit(blob)
      THEN LET nums == extract_numbers(blob)
               mean == RDivInt(SumRat(nums), Len(nums))
           IN  /\ Len(pairs) = 2
               /\ pairs[1].score = RDivInt(mean, 2)
               /\ pairs[2].score = RDivInt(mean, 2)
               /\ speaks_round = mean
      ELSE pairs = <<>> /\ speaks_round = Zero

\* C9: a side whose cell yields no name-score pair but holds a number gets
\* two placeholder participants, each with half the mean of the numbers;
\* without a number it has no participant and a round score of 0.
C9_NumericFallback ==
    /\ FallbackSide(row.aff_blob, row.aff_pairs, row.aff_team_speaks_round)
    /\ FallbackSide(row.neg_blob, row.neg_pairs, row.neg_team_speaks_round)

\* the cell "27.5 26.0": two placeholders with 13.375 each
C9_Witness ==
    /\ row.neg_blob = <<"2","7",".","5"," ","2","6",".","0">>
    /\ Len(row.neg_pairs) = 2
    /\ row.neg_pairs[1].score = Rat(107, 8)
    /\ row.neg_pairs[2].score = Rat(107, 8)
    /\ row.aff_pairs = <<>>

\* the store after an Add request is the store before it, changed as the
\* request says
AddEffect(before, after, tname, uploaded, mode) ==
    LET readable == SelectSeq(uploaded, LAMBDA f : f.engine # "none")
    IN  IF tname = "" \/ uploaded = <<>> \/ readable = <<>>
        THEN after = before
        ELSE LET old == IF Has(before, tname) /\ mode = "Append rounds to existing"
                        THEN Get(before, tname, <<>>)
                        ELSE <<>>
                 new == Get(after, tname, <<>>)
             IN  /\ Has(after, tname)
                 /\ Len(new) = Len(old) + Len(readable)
                 /\ Len(new) >= 1
                 /\ SubSeq(new, 1, Len(old)) = old
                 /\ \A i \in DOMAIN readable :
                       new[Len(old) + i].rows = readable[i].df.rows
                 /\ \A i \in DOMAIN before :
                       before[i].k # tname => after[i] = before[i]
                 /\ Keys(after) = IF Has(before, tname) THEN Keys(before)
                                  ELSE Append(Keys(before), tname)

\* the store after a Remove holds the other entries, unchanged and in order
RemoveEffect(before, after, name) ==
    /\ ~Has(after, name)
    /\ Len(after) = Len(before) - 1
    /\ \A i \in DOMAIN after :
          after[i] = before[IF \E j \in 1..i : before[j].k = name THEN i + 1 ELSE i]

\* C10: every stored tournament has at least one round; from every store
\* the sidebar can be used on, an Add request with an empty name, no file
\* or no readable file leaves the store unchanged, a successful Add changes
\* the entry of the named tournament only (the new rounds after the
\* existing ones in append mode, in place of them otherwise), and a Remove
\* deletes the named entry only.
C10_StoreFrame ==
    /\ \A i \in DOMAIN tournaments : Len(tournaments[i].v) >= 1
    /\ CanClick =>
         /\ \A tname \in NameInputs, uploaded \in Uploads, mode \in Modes :
               AddEffect(tournaments, AddStore(tournaments, tname, uploaded, mode),
                         tname, uploaded, mode)
         /\ \A name \in Range(Keys(tournaments)) :
               RemoveEffect(tournaments, Del(tournaments, name), name)

\* a tournament that holds rounds of two uploads, beside another tournament
C10_Witness ==
    /\ Len(tournaments) = 2
    /\ Len(tournaments[1].v) = 2
    /\ tournaments[1].v[1] # tournaments[1].v[2]
    /\ pc = "idle"

====
